---- MODULE Spec2Model ----
(***************************************************************************)
(* Model of the IVR service of app.py: the in-memory session store, the    *)
(* two handlers that use it (/language, /collect_digit) and the            *)
(* resolution pipeline run by the sixth digit (map_pincode_to_city,        *)
(* get_weather_for_place, get_tomato_price_demo, build_message, speech     *)
(* synthesis).                                                             *)
(*                                                                         *)
(* Python strings are sequences of one-character strings, so that join,    *)
(* isdigit, int, lower and the substring test are computed as the code     *)
(* computes them.  The handlers are coroutines of one event loop: a        *)
(* handler suspends only at `await request.form()`, and its blocking calls *)
(* (requests.get, Polly, gTTS) hold the loop until they return.            *)
(***************************************************************************)
EXTENDS Integers, Sequences, FiniteSets, TLC

VARIABLES
  sessions,   \* app.py:22   call_sid -> [lang, pincode_digits, step]
  inflight,   \* /collect_digit requests whose handler is suspended at `await request.form()`
  running,    \* the handler holding the event loop inside the terminal pipeline, or idle
  resp,       \* the response the step just taken returned, NoResponse when it returned none
  fed         \* history: per call, the Digits handled since its last /language or hangup

vars == <<sessions, inflight, running, resp, fed>>

----------------------------------------------------------------------------
(* Bounds of the exploration *)

\* requests that may be suspended at `await request.form()` at the same time
MaxInflight == 2
CallIds == {"CA1", "CA2"}

\* the six-key pincodes callers dial: an exact match, a range match, a non-numeric one
SamplePincodes ==
  { <<"4","0","0","0","0","1">>,
    <<"4","0","0","0","0","0">>,
    <<"4","0","0","0","0","*">> }

\* Digits values of a /language event: the three menu keys and one other key
LangKeys == { <<"1">>, <<"2">>, <<"3">>, <<"9">> }

----------------------------------------------------------------------------
(* Python string helpers *)

DigitChars == {"0","1","2","3","4","5","6","7","8","9"}

\* str.isdigit() on the keys a telephone keypad sends (0-9, *, #)
IsDigit(s) == \A i \in 1..Len(s) : s[i] \in DigitChars

DigitVal(ch) ==
  CASE ch = "0" -> 0 [] ch = "1" -> 1 [] ch = "2" -> 2 [] ch = "3" -> 3
    [] ch = "4" -> 4 [] ch = "5" -> 5 [] ch = "6" -> 6 [] ch = "7" -> 7
    [] ch = "8" -> 8 [] ch = "9" -> 9

\* int(s) for a string of decimal digits
RECURSIVE ToInt(_)
ToInt(s) ==
  IF s = <<>> THEN 0
  ELSE 10 * ToInt(SubSeq(s, 1, Len(s) - 1)) + DigitVal(s[Len(s)])

\* "".join(parts)
RECURSIVE Join(_)
Join(parts) ==
  IF parts = <<>> THEN <<>> ELSE Head(parts) \o Join(Tail(parts))

UpperToLower ==
  [ch \in {"A","B","C","D","E","F","G","H","I","J","K","L","M",
           "N","O","P","Q","R","S","T","U","V","W","X","Y","Z"} |->
     CASE ch = "A" -> "a" [] ch = "B" -> "b" [] ch = "C" -> "c" [] ch = "D" -> "d"
       [] ch = "E" -> "e" [] ch = "F" -> "f" [] ch = "G" -> "g" [] ch = "H" -> "h"
       [] ch = "I" -> "i" [] ch = "J" -> "j" [] ch = "K" -> "k" [] ch = "L" -> "l"
       [] ch = "M" -> "m" [] ch = "N" -> "n" [] ch = "O" -> "o" [] ch = "P" -> "p"
       [] ch = "Q" -> "q" [] ch = "R" -> "r" [] ch = "S" -> "s" [] ch = "T" -> "t"
       [] ch = "U" -> "u" [] ch = "V" -> "v" [] ch = "W" -> "w" [] ch = "X" -> "x"
       [] ch = "Y" -> "y" [] ch = "Z" -> "z"]

UpperCase == DOMAIN UpperToLower

\* str.lower()
Lower(s) ==
  [i \in 1..Len(s) |-> IF s[i] \in UpperCase THEN UpperToLower[s[i]] ELSE s[i]]

\* `sub in s`
Contains(s, sub) ==
  \E i \in 0..(Len(s) - Len(sub)) : SubSeq(s, i + 1, i + Len(sub)) = sub

----------------------------------------------------------------------------
(* Location resolver: map_pincode_to_city *)

UnknownCity == <<"U","n","k","n","o","w","n"," ","C","i","t","y">>
UnknownState == <<"U","n","k","n","o","w","n"," ","S","t","a","t","e">>
PincodePrefix == <<"P","i","n","c","o","d","e"," ">>
PincodeWord == <<"P","i","n","c","o","d","e">>
UnknownWord == <<"U","n","k","n","o","w","n">>
CommaSpace == <<","," ">>

\* the dict city_map; a key is matched against str(int(pincode)), which is the key
\* itself exactly when int(pincode) is the key's number
city_map ==
  << [pin |-> 110001, city |-> <<"N","e","w"," ","D","e","l","h","i">>,
      state |-> <<"D","e","l","h","i">>],
     [pin |-> 400001, city |-> <<"M","u","m","b","a","i">>,
      state |-> <<"M","a","h","a","r","a","s","h","t","r","a">>],
     [pin |-> 560001, city |-> <<"B","e","n","g","a","l","u","r","u">>,
      state |-> <<"K","a","r","n","a","t","a","k","a">>],
     [pin |-> 600001, city |-> <<"C","h","e","n","n","a","i">>,
      state |-> <<"T","a","m","i","l"," ","N","a","d","u">>],
     [pin |-> 700001, city |-> <<"K","o","l","k","a","t","a">>,
      state |-> <<"W","e","s","t"," ","B","e","n","g","a","l">>],
     [pin |-> 500001, city |-> <<"H","y","d","e","r","a","b","a","d">>,
      state |-> <<"T","e","l","a","n","g","a","n","a">>],
     [pin |-> 380001, city |-> <<"A","h","m","e","d","a","b","a","d">>,
      state |-> <<"G","u","j","a","r","a","t">>] >>

\* the list ranges, in the order the loop scans it
ranges ==
  << [start |-> 110000, end |-> 110099,
      state |-> <<"D","e","l","h","i">>],
     [start |-> 400000, end |-> 444999,
      state |-> <<"M","a","h","a","r","a","s","h","t","r","a">>],
     [start |-> 560000, end |-> 591999,
      state |-> <<"K","a","r","n","a","t","a","k","a">>],
     [start |-> 600000, end |-> 643999,
      state |-> <<"T","a","m","i","l"," ","N","a","d","u">>],
     [start |-> 670000, end |-> 695999,
      state |-> <<"K","e","r","a","l","a">>],
     [start |-> 700000, end |-> 749999,
      state |-> <<"W","e","s","t"," ","B","e","n","g","a","l">>],
     [start |-> 500000, end |-> 534999,
      state |-> <<"A","n","d","h","r","a"," ","P","r","a","d","e","s","h">>],
     [start |-> 505000, end |-> 535999,
      state |-> <<"T","e","l","a","n","g","a","n","a">>],
     [start |-> 380000, end |-> 396999,
      state |-> <<"G","u","j","a","r","a","t">>],
     [start |-> 180000, end |-> 194999,
      state |-> <<"J","a","m","m","u"," ","&"," ","K","a","s","h","m","i","r">>],
     [start |-> 750000, end |-> 769999,
      state |-> <<"O","d","i","s","h","a">>],
     [start |-> 800000, end |-> 849999,
      state |-> <<"B","i","h","a","r">>],
     [start |-> 820000, end |-> 839999,
      state |-> <<"J","h","a","r","k","h","a","n","d">>],
     [start |-> 140000, end |-> 160999,
      state |-> <<"P","u","n","j","a","b">>],
     [start |-> 160000, end |-> 179999,
      state |-> <<"H","a","r","y","a","n","a">>],
     [start |-> 201000, end |-> 285999,
      state |-> <<"U","t","t","a","r"," ","P","r","a","d","e","s","h">>],
     [start |-> 301000, end |-> 345999,
      state |-> <<"R","a","j","a","s","t","h","a","n">>],
     [start |-> 360000, end |-> 389999,
      state |-> <<"G","u","j","a","r","a","t">>],
     [start |-> 793000, end |-> 799999,
      state |-> <<"M","e","g","h","a","l","a","y","a">>],
     [start |-> 781000, end |-> 788999,
      state |-> <<"A","s","s","a","m">>] >>

InRange(pin, r) == r.start <= pin /\ pin <= r.end

\* variant: the last match
Last(S) == CHOOSE i \in S : \A j \in S : j <= i

\* the least member of a non-empty set of list positions
First(S) == CHOOSE i \in S : \A j \in S : i <= j

\* variant: the ranges are scanned before the table is looked up
map_pincode_ranges_first(pincode) ==
  IF pincode = <<>> \/ ~IsDigit(pincode) THEN <<UnknownCity, UnknownState>>
  ELSE LET pin   == ToInt(pincode)
           exact == { i \in 1..Len(city_map) : city_map[i].pin = pin }
           hits  == { i \in 1..Len(ranges) : InRange(pin, ranges[i]) }
       IN  IF hits # {}
           THEN <<PincodePrefix \o pincode, ranges[First(hits)].state>>
           ELSE IF exact # {}
           THEN <<city_map[First(exact)].city, city_map[First(exact)].state>>
           ELSE <<UnknownCity, UnknownState>>

\* variant: keys that are not all digits get the placeholder city
map_pincode_placeholder(pincode) ==
  IF pincode = <<>> \/ ~IsDigit(pincode) THEN <<PincodePrefix \o pincode, UnknownState>>
  ELSE LET pin   == ToInt(pincode)
           exact == { i \in 1..Len(city_map) : city_map[i].pin = pin }
           hits  == { i \in 1..Len(ranges) : InRange(pin, ranges[i]) }
       IN  IF exact # {}
           THEN <<city_map[First(exact)].city, city_map[First(exact)].state>>
           ELSE IF hits # {}
           THEN <<PincodePrefix \o pincode, ranges[First(hits)].state>>
           ELSE <<UnknownCity, UnknownState>>

map_pincode_to_city(pincode) ==
  IF pincode = <<>> \/ ~IsDigit(pincode)
  THEN <<UnknownCity, UnknownState>>
  ELSE LET pin   == ToInt(pincode)
           exact == { i \in 1..Len(city_map) : city_map[i].pin = pin }
           hits  == { i \in 1..Len(ranges) : InRange(pin, ranges[i]) }
       IN  IF exact # {}
           THEN <<city_map[First(exact)].city, city_map[First(exact)].state>>
           \* the loop returns at the first range that holds pin
           ELSE IF hits # {}
           THEN <<PincodePrefix \o pincode, ranges[First(hits)].state>>
           ELSE <<UnknownCity, UnknownState>>

\* variant: the city whatever it is
LocationNameCity(city, state) == city

\* app.py:222  city if known, else the state
LocationName(city, state) ==
  IF ~Contains(city, PincodeWord) /\ ~Contains(city, UnknownWord) THEN city ELSE state

----------------------------------------------------------------------------
(* Gateways: get_weather_for_place, get_tomato_price_demo *)

DefaultWeather == [desc |-> "clear sky", temp |-> "unknown"]

\* what the weather lookup can meet: no API key configured, a transport error or
\* timeout, a JSON reply with a failure code, a JSON reply with code 200
WeatherReplies ==
  { [key |-> FALSE, raises |-> FALSE, cod |-> "none", desc |-> "none", temp |-> "none"],
    [key |-> TRUE,  raises |-> TRUE,  cod |-> "none", desc |-> "none", temp |-> "none"],
    [key |-> TRUE,  raises |-> FALSE, cod |-> "404",  desc |-> "none", temp |-> "none"],
    [key |-> TRUE,  raises |-> FALSE, cod |-> "200",  desc |-> "haze", temp |-> "31" ] }

\* variant: a reply is read whatever its code
get_weather_unchecked(city_or_district, reply) ==
  IF ~reply.key THEN DefaultWeather
  ELSE IF reply.raises THEN DefaultWeather
  ELSE [desc |-> reply.desc, temp |-> reply.temp]

get_weather_for_place(city_or_district, reply) ==
  IF ~reply.key THEN DefaultWeather
  ELSE IF reply.raises THEN DefaultWeather
  ELSE IF reply.cod = "200" THEN [desc |-> reply.desc, temp |-> reply.temp]
  ELSE DefaultWeather

\* the dict mapping, in insertion order
mapping ==
  << [key |-> <<"A","h","m","e","d","a","b","a","d">>, price |-> 28],
     [key |-> <<"S","u","r","a","t">>, price |-> 35],
     [key |-> <<"M","u","m","b","a","i">>, price |-> 45],
     [key |-> <<"D","e","l","h","i">>, price |-> 30],
     [key |-> <<"B","e","n","g","a","l","u","r","u">>, price |-> 40],
     [key |-> <<"C","h","e","n","n","a","i">>, price |-> 38],
     [key |-> <<"H","y","d","e","r","a","b","a","d">>, price |-> 34],
     [key |-> <<"K","o","l","k","a","t","a">>, price |-> 32] >>

DefaultPrice == 32

\* key.lower() of every key of mapping
LoweredKeys == [i \in 1..Len(mapping) |-> Lower(mapping[i].key)]

\* the loop over mapping for city.lower(): it returns at the first key found
PriceOf(lowered) ==
  LET hits == { i \in 1..Len(mapping) : Contains(lowered, LoweredKeys[i]) }
  IN  IF hits # {} THEN mapping[First(hits)].price ELSE DefaultPrice

get_tomato_price_demo(city) == PriceOf(Lower(city))

----------------------------------------------------------------------------
(* Message composer and speech synthesis *)

\* build_message: the text is one of four templates filled with city, desc, temp
\* and price; it is kept as the template chosen and the values interpolated
build_message(lang, city, weather, price) ==
  [template |-> IF lang \in {"en", "hi", "gu"} THEN lang ELSE "default",
   city     |-> city,
   desc     |-> weather.desc,
   temp     |-> weather.temp,
   price    |-> price]

\* what the Polly backend can do: the neural call returns a stream; the neural call
\* raises and the standard call returns a stream; a reply without AudioStream; the
\* client, the standard call or the file write raises
PollyOutcomes == {"neural", "standard", "nostream", "raise"}

\* what gTTS can do: the file is saved, or anything raises
GttsOutcomes == {"saved", "raise"}

synthesize_aws_polly(outcome) ==
  CASE outcome = "neural"   -> [raised |-> FALSE, value |-> TRUE]
    [] outcome = "standard" -> [raised |-> FALSE, value |-> TRUE]
    [] outcome = "nostream" -> [raised |-> FALSE, value |-> FALSE]
    [] outcome = "raise"    -> [raised |-> TRUE,  value |-> FALSE]

synthesize_gtts(outcome) == outcome = "saved"

\* variant: a call to gTTS never returns
SynthOutcomesGttsHangs(lang) ==
  IF lang \in {"en", "hi"} THEN PollyOutcomes ELSE {}

SynthOutcomes(lang) ==
  IF lang \in {"en", "hi"} THEN PollyOutcomes
  ELSE IF lang = "gu" THEN GttsOutcomes
  ELSE {"none"}

\* app.py:231-239  ok
Synthesized(lang, outcome) ==
  IF lang \in {"en", "hi"}
  THEN LET r == synthesize_aws_polly(outcome) IN
       IF r.raised THEN FALSE ELSE r.value
  ELSE IF lang = "gu" THEN synthesize_gtts(outcome)
  ELSE FALSE


----------------------------------------------------------------------------
(* Session store and call-control responses *)

PincodeLength == 6

\* variant: a key outside the menu selects no language
LangOfMenuOnly(Digits) ==
  IF Digits = <<"1">> THEN "en"
  ELSE IF Digits = <<"2">> THEN "hi"
  ELSE IF Digits = <<"3">> THEN "gu"
  ELSE "default"

\* app.py:181-187
LangOf(Digits) ==
  IF Digits = <<"1">> THEN "en"
  ELSE IF Digits = <<"2">> THEN "hi"
  ELSE IF Digits = <<"3">> THEN "gu"
  ELSE "en"

\* variant: a fresh session that counts as if five digits were collected
NewSessionAtSixth(lang) == [lang |-> lang, pincode_digits |-> <<>>, step |-> PincodeLength]

\* app.py:189  the dict a language selection stores
NewSession(lang) == [lang |-> lang, pincode_digits |-> <<>>, step |-> 1]

\* variant: a default that has already counted a digit
DefaultSessionCounted == [lang |-> "en", pincode_digits |-> <<>>, step |-> 2]

\* app.py:203  the default of sessions.get
DefaultSession == [lang |-> "en", pincode_digits |-> <<>>, step |-> 1]

\* sessions.get(call_sid, default)
SessionGet(store, call_sid) ==
  IF call_sid \in DOMAIN store THEN store[call_sid] ELSE DefaultSession

\* variant: the session is written under every key of the store
PutEverywhere(store, call_sid, session) ==
  [c \in DOMAIN store \cup {call_sid} |-> session]

\* sessions[call_sid] = session
Put(store, call_sid, session) ==
  [c \in DOMAIN store \cup {call_sid} |-> IF c = call_sid THEN session ELSE store[c]]

\* variant: the session is kept
PopNothing(store, call_sid) == store

\* sessions.pop(call_sid, None)
Pop(store, call_sid) == [c \in DOMAIN store \ {call_sid} |-> store[c]]

\* variant: the session as it stood when the request arrived, which is what a
\* handler that read the store before awaiting the form would work on once a later
\* request has been handled before it
FetchSessionAtArrival(req) ==
  LET session == SessionGet(sessions, req.call) IN
    IF req.pos < Len(session.pincode_digits)
    THEN [lang           |-> session.lang,
          pincode_digits |-> SubSeq(session.pincode_digits, 1, req.pos),
          step           |-> req.pos + 1]
    ELSE session

\* app.py:203  the session /collect_digit works on: read from the store after the
\* form has been awaited
FetchSession(req) == SessionGet(sessions, req.call)

\* variant: a digit equal to the one collected last is taken for a repeat and dropped
AppendDigitOnce(session, Digits) ==
  IF /\ session.pincode_digits # <<>>
     /\ session.pincode_digits[Len(session.pincode_digits)] = Digits
  THEN session
  ELSE [lang           |-> session.lang,
        pincode_digits |-> Append(session.pincode_digits, Digits),
        step           |-> session.step + 1]

\* variant: the digit is appended and the step is left as it was
AppendDigitKeepStep(session, Digits) ==
  [lang           |-> session.lang,
   pincode_digits |-> Append(session.pincode_digits, Digits),
   step           |-> session.step]

\* variant: the session is rebuilt with the default language
AppendDigitDefaultLang(session, Digits) ==
  [lang           |-> "en",
   pincode_digits |-> Append(session.pincode_digits, Digits),
   step           |-> session.step + 1]

\* app.py:205-210  append the digit, advance the step
AppendDigit(session, Digits) ==
  [lang           |-> session.lang,
   pincode_digits |-> Append(session.pincode_digits, Digits),
   step           |-> session.step + 1]

\* variant: the sixth digit is answered with another prompt
StillCollectingThroughSixth(step) == step <= PincodeLength

\* app.py:214  the branch that asks for another digit
StillCollecting(step) == step < PincodeLength

\* variant: the prompt names the digit just entered
NextPromptSame(step) == step

\* app.py:216  "digit number {step+1}"
NextPrompt(step) == step + 1

\* "Please enter the first digit ..." / "Please enter digit number n ..."
DigitPrompt(n) == [text |-> "digit", n |-> n]

GatherVerb(action, prompt) ==
  [verb |-> "Gather", action |-> action, say |-> prompt, url |-> "none"]
PlayVerb(url) == [verb |-> "Play", action |-> "none", say |-> "none", url |-> url]
SayVerb(text) == [verb |-> "Say", action |-> "none", say |-> text, url |-> "none"]
HangupVerb == [verb |-> "Hangup", action |-> "none", say |-> "none", url |-> "none"]

\* app.py:228,244  the URL of the audio file (host, scheme and timestamp of the
\* request are not kept)
AudioUrl(call_sid, lang) == [call |-> call_sid, lang |-> lang]

\* variant: the audio is played whatever synthesis reported
AnnouncementPlayAlways(ok, message_text, audio_url) == PlayVerb(audio_url)

\* app.py:241-247  play the audio when synthesis succeeded, else say the text
Announcement(ok, message_text, audio_url) ==
  IF ok THEN PlayVerb(audio_url) ELSE SayVerb(message_text)

\* variant: the hangup follows the audio only
TerminalVerbsHangupAfterPlay(ok, message_text, audio_url) ==
  IF ok THEN <<PlayVerb(audio_url), HangupVerb>> ELSE <<SayVerb(message_text)>>

\* app.py:241-249  the verbs of the terminal response
TerminalVerbs(ok, message_text, audio_url) ==
  <<Announcement(ok, message_text, audio_url), HangupVerb>>

Idle == [pc |-> "idle"]

\* history kept with a response: its request's Digits; pos, the keys the call had
\* pressed before it; missing, the store held no session of the call; raced, a
\* request that arrived later was handled first; replaced, the number of digits of
\* the session a /language overwrote; weather, whether the weather lookup got a
\* reading; synth, what the synthesis backend did
NoHistory ==
  [Digits |-> <<>>, pos |-> 0, missing |-> FALSE, raced |-> FALSE, replaced |-> 0,
   weather |-> "none", synth |-> "none"]

Response(endpoint, call_sid, verbs, hist) ==
  [endpoint |-> endpoint, call |-> call_sid, verbs |-> verbs, hist |-> hist]

NoResponse == Response("none", "none", <<>>, NoHistory)

----------------------------------------------------------------------------
(* Initial state and the handlers *)

Init ==
  /\ sessions = << >>
  /\ inflight = {}
  /\ running = Idle
  /\ resp = NoResponse
  /\ fed = [c \in CallIds |-> <<>>]

\* the keys a caller presses after n keys: callers dial the sample pincodes key by
\* key, and start over after the sixth
NextKeys(n) == { <<s[(n % PincodeLength) + 1]>> : s \in SamplePincodes }

\* the /collect_digit requests of a call that are suspended
Pending(call_sid) == { r \in inflight : r.call = call_sid }

\* the keys of its pincode a call has had collected
Collected(call_sid) == Len(SessionGet(sessions, call_sid).pincode_digits)

\* the keys of its pincode a call has pressed: those collected and those on the way
KeysPressed(call_sid) == Collected(call_sid) + Cardinality(Pending(call_sid))

\* history: a request that arrived after req has been handled before it
Overtaken(req) == req.pos < Collected(req.call)

\* app.py:200-202  a /collect_digit request arrives and its handler awaits the form.
\* pos is history: the number of keys of the pincode pressed before this one.  A
\* caller presses a key only when no earlier key has been overtaken and is still
\* on the way, and presses a key beyond the sixth only when none is on the way.
ArriveDigit(call_sid, Digits) ==
  /\ Cardinality(inflight) < MaxInflight
  /\ \A r \in Pending(call_sid) : r.pos >= Collected(call_sid)
  /\ KeysPressed(call_sid) < PincodeLength \/ Pending(call_sid) = {}
  /\ Digits \in NextKeys(KeysPressed(call_sid))
  /\ inflight' = inflight \cup {[call |-> call_sid, Digits |-> Digits,
                                  pos |-> KeysPressed(call_sid)]}
  /\ resp' = NoResponse
  /\ UNCHANGED <<sessions, running, fed>>

\* app.py:177-196  /language: store a fresh session, ask for digit 1.  The handler
\* suspends only to await the form, before it touches the store, and reads nothing
\* of the store: the request is taken at the moment its body runs.  A caller
\* selects a language while none of its keys is on the way.
handle_language(call_sid, Digits) ==
  /\ running.pc = "idle"
  /\ Pending(call_sid) = {}
  /\ sessions' = Put(sessions, call_sid, NewSession(LangOf(Digits)))
  /\ fed' = [fed EXCEPT ![call_sid] = <<>>]
  /\ resp' = Response("/language", call_sid,
                      <<GatherVerb("/collect_digit", DigitPrompt(1))>>,
                      [NoHistory EXCEPT !.Digits = Digits,
                                        !.replaced = Collected(call_sid)])
  /\ UNCHANGED <<inflight, running>>

\* app.py:203-224  /collect_digit after the form: append the digit and either ask
\* for the next one, or resolve the pincode and enter the blocking calls of the
\* pipeline (requests.get, then Polly or gTTS), which hold the event loop
collect_digit(req) ==
  /\ running.pc = "idle"
  /\ req \in inflight
  /\ LET session == FetchSession(req)
         step    == session.step
         updated == AppendDigit(session, req.Digits)
         hist    == [NoHistory EXCEPT !.Digits = req.Digits, !.pos = req.pos,
                                      !.missing = req.call \notin DOMAIN sessions,
                                      !.raced = Overtaken(req)]
     IN
       /\ sessions' = Put(sessions, req.call, updated)
       /\ fed' = [fed EXCEPT ![req.call] = Append(@, req.Digits)]
       /\ \/ /\ StillCollecting(step)
             /\ resp' = Response("/collect_digit", req.call,
                                 <<GatherVerb("/collect_digit", DigitPrompt(NextPrompt(step)))>>,
                                 hist)
             /\ UNCHANGED running
          \/ /\ ~StillCollecting(step)
             /\ \E full_pincode \in {Join(updated.pincode_digits)} :
                \E place \in {map_pincode_to_city(full_pincode)} :
                LET city  == place[1]
                    state == place[2]
                IN running' = [pc |-> "pipeline", call |-> req.call, lang |-> updated.lang,
                               city |-> city, state |-> state,
                               location_name |-> LocationName(city, state),
                               full_pincode |-> full_pincode]
             /\ resp' = NoResponse
  /\ inflight' = inflight \ {req}

\* what the outcome of a synthesis backend amounts to: audio was produced, the
\* backend returned without audio, or it raised
SynthClass(outcome) ==
  IF outcome \in {"neural", "standard", "saved"} THEN "success"
  ELSE IF outcome = "nostream" THEN "failure"
  ELSE "raised"

\* what a reply to the weather lookup amounts to: a reading was got, or the
\* lookup failed (no key, a transport error, a failure code)
WeatherClass(reply) ==
  IF reply.key /\ ~reply.raises /\ reply.cod = "200" THEN "read" ELSE "failed"

\* the terminal response: app.py:224-249 for a reply to the weather lookup, a
\* price and a synthesis outcome
TerminalResponse(reply, price, outcome) ==
  LET weather      == get_weather_for_place(running.location_name, reply)
      message_text == build_message(running.lang,
                                    running.city \o CommaSpace \o running.state,
                                    weather, price)
      ok           == Synthesized(running.lang, outcome)
  IN  Response("/collect_digit", running.call,
               TerminalVerbs(ok, message_text, AudioUrl(running.call, running.lang)),
               [NoHistory EXCEPT !.weather = WeatherClass(reply),
                                 !.synth = SynthClass(outcome)])

\* app.py:224-252  the weather lookup and the synthesis return: compose the
\* message, announce it, hang up, drop the session
PipelineReturn ==
  /\ running.pc = "pipeline"
  /\ \E price \in {get_tomato_price_demo(running.location_name)} :
       \E reply \in WeatherReplies, outcome \in SynthOutcomes(running.lang) :
         resp' = TerminalResponse(reply, price, outcome)
  /\ sessions' = Pop(sessions, running.call)
  /\ fed' = [fed EXCEPT ![running.call] = <<>>]
  /\ running' = Idle
  /\ UNCHANGED inflight

Next ==
  \/ \E c \in CallIds, d \in LangKeys : handle_language(c, d)
  \/ \E c \in CallIds : \E d \in NextKeys(KeysPressed(c)) : ArriveDigit(c, d)
  \/ \E req \in inflight : collect_digit(req)
  \/ PipelineReturn

Spec == Init /\ [][Next]_vars

----------------------------------------------------------------------------
(* The sixth digit over a wide set of pincodes *)

Languages == {"en", "hi", "gu"}

\* the key of decimal digit d
KeyOf(d) ==
  CASE d = 0 -> "0" [] d = 1 -> "1" [] d = 2 -> "2" [] d = 3 -> "3" [] d = 4 -> "4"
    [] d = 5 -> "5" [] d = 6 -> "6" [] d = 7 -> "7" [] d = 8 -> "8" [] d = 9 -> "9"

\* the six keys that dial the number n
KeysOf(n) == [i \in 1..PincodeLength |-> KeyOf((n \div 10^(PincodeLength - i)) % 10)]

\* numbers dialled: every key of city_map, both ends of every range and their
\* neighbours outside, numbers inside the overlaps of ranges, numbers in no range
DialledNumbers ==
  { city_map[i].pin : i \in 1..Len(city_map) }
    \cup { ranges[i].start : i \in 1..Len(ranges) }
    \cup { ranges[i].start - 1 : i \in 1..Len(ranges) }
    \cup { ranges[i].end : i \in 1..Len(ranges) }
    \cup { ranges[i].end + 1 : i \in 1..Len(ranges) }
    \cup { 0, 1, 40001, 100000, 160500, 385000, 520000, 830000, 999999 }

\* six keys of which at least one is * or #
DialledWithSymbols ==
  { <<"4","0","0","0","0","*">>, <<"#","0","0","0","0","1">>,
    <<"4","0","*","0","#","1">>, <<"*","*","*","*","*","*">> }

DialledCodes == { KeysOf(n) : n \in DialledNumbers } \cup DialledWithSymbols

\* a call that selected a language and has had five keys collected, with the
\* request of its sixth key suspended
SixthKeyInit ==
  \E code \in DialledCodes, lang \in Languages :
    LET five == [i \in 1..(PincodeLength - 1) |-> <<code[i]>>] IN
      /\ sessions = [c \in {"CA1"} |->
                       [lang |-> lang, pincode_digits |-> five, step |-> PincodeLength]]
      /\ inflight = {[call |-> "CA1", Digits |-> <<code[PincodeLength]>>,
                      pos |-> PincodeLength - 1]}
      /\ running = Idle
      /\ resp = NoResponse
      /\ fed = [c \in CallIds |-> IF c = "CA1" THEN five ELSE <<>>]

\* the sixth key is handled and the pipeline returns
SixthKeyNext ==
  \/ \E req \in inflight : collect_digit(req)
  \/ PipelineReturn

ResolverSpec == SixthKeyInit /\ [][SixthKeyNext]_vars

----------------------------------------------------------------------------
(* Scheduling *)

\* a suspended request of the call is resumed
ResumeCall(call_sid) == \E req \in Pending(call_sid) : collect_digit(req)

\* the events of one call alone
OneCallNext ==
  \/ \E d \in LangKeys : handle_language("CA1", d)
  \/ \E d \in NextKeys(KeysPressed("CA1")) : ArriveDigit("CA1", d)
  \/ \E req \in inflight : collect_digit(req)
  \/ PipelineReturn

\* the weather lookup and the synthesis call return or fail in the end, and the
\* event loop resumes, in the end, a handler of every call whose form has arrived
FairSpec ==
  /\ Init
  /\ [][OneCallNext]_vars
  /\ WF_vars(PipelineReturn)
  /\ \A c \in CallIds : SF_vars(ResumeCall(c))

----------------------------------------------------------------------------
(* Properties *)

\* the /collect_digit requests whose body ran in the step
Handled == inflight \ inflight'

\* the step in which the pipeline returns and the terminal response is sent
Returns == running.pc = "pipeline" /\ running'.pc = "idle"

\* r asks for one digit, prompting for digit n
AsksForDigit(r, n) ==
  r.verbs = <<[verb |-> "Gather", action |-> "/collect_digit",
               say |-> [text |-> "digit", n |-> n], url |-> "none"]>>

VerbsOf(r) == { r.verbs[i].verb : i \in 1..Len(r.verbs) }

\* r carries a terminal directive
EmitsTerminal(r) == VerbsOf(r) \cap {"Play", "Say"} # {}

\* C1: the digits handled for a call since its language selection (or its hangup)
\* are answered, while fewer than six, by one Gather that prompts for the digit
\* after those collected; the sixth starts the pipeline on the six digits joined in
\* the order handled, and the pipeline returns exactly one Play or Say followed by
\* Hangup.
PincodeDialogue ==
  [][ /\ \A req \in Handled :
           LET digits == fed'[req.call]
               n      == Len(digits)
           IN  /\ digits = Append(fed[req.call], req.Digits)
               /\ n <= PincodeLength
               /\ (n < PincodeLength) =>
                    (resp'.call = req.call /\ AsksForDigit(resp', n + 1))
               /\ (n = PincodeLength) =>
                    /\ resp' = NoResponse
                    /\ running'.pc = "pipeline"
                    /\ running'.call = req.call
                    /\ running'.full_pincode = Join(digits)
      /\ Returns =>
           /\ running.full_pincode = Join(fed[running.call])
           /\ Len(fed[running.call]) = PincodeLength
           /\ resp'.call = running.call
           /\ Len(resp'.verbs) = 2
           /\ resp'.verbs[1].verb \in {"Play", "Say"}
           /\ resp'.verbs[2] = HangupVerb
    ]_vars

\* C1 witness: Hindi was selected, 400001 was dialled, the call ended with the
\* message for Mumbai and a hangup
DialogueCompleted ==
  /\ Len(resp.verbs) = 2
  /\ resp.verbs[1].verb = "Say"
  /\ resp.verbs[1].say.template = "hi"
  /\ resp.verbs[1].say.city = city_map[2].city \o CommaSpace \o city_map[2].state
  /\ resp.verbs[2] = HangupVerb

\* C2: every stored session has step = number of digits collected + 1.
StepTracksDigits ==
  \A c \in DOMAIN sessions :
    sessions[c].step = Len(sessions[c].pincode_digits) + 1

\* C2 witness: a session stored with six digits and step 7, while its pipeline runs
SixDigitsStepSeven ==
  \E c \in DOMAIN sessions :
    Len(sessions[c].pincode_digits) = 6 /\ sessions[c].step = 7

\* C3: no stored session ever holds more than six digits, and no digit is handled
\* on a session that holds six.
NeverSeventhDigit ==
  [][ /\ \A c \in DOMAIN sessions' : Len(sessions'[c].pincode_digits) <= 6
      /\ \A req \in Handled :
           req.call \in DOMAIN sessions => Len(sessions[req.call].pincode_digits) < 6
    ]_vars

\* C3 witness: the seventh key of a call, pressed while its pipeline ran, has been
\* handled: it found no session and is the first digit of a new one
SeventhKeyStartsAnew ==
  /\ resp.hist.pos = 6
  /\ resp.hist.missing
  /\ resp.call \in DOMAIN sessions
  /\ sessions[resp.call].pincode_digits = resp.hist.Digits

\* C4: a digit handled for a call that has no session is answered by a prompt for
\* digit 2 and leaves a session with language English, that one digit and step 2.
MissingSessionIsEnglishDefault ==
  [][ \A req \in Handled :
        req.call \notin DOMAIN sessions =>
          /\ resp'.call = req.call
          /\ AsksForDigit(resp', 2)
          /\ req.call \in DOMAIN sessions'
          /\ sessions'[req.call] =
               [lang |-> "en", pincode_digits |-> <<req.Digits>>, step |-> 2]
    ]_vars

\* C4 witness: such a digit has been handled
DigitWithoutSessionHandled ==
  /\ resp.endpoint = "/collect_digit"
  /\ resp.hist.missing
  /\ resp.hist.pos = 0
  /\ AsksForDigit(resp, 2)
  /\ resp.call \in DOMAIN sessions

\* C5: when the response of a step carries a terminal directive, the store holds
\* no session of the call it answers.
NoSessionAfterTerminal ==
  EmitsTerminal(resp) => resp.call \notin DOMAIN sessions

\* C5 witness: a call ended with its audio played while the other call's session
\* is still stored
EndedWithAudio ==
  /\ "Play" \in VerbsOf(resp)
  /\ resp.hist.synth = "success"
  /\ DOMAIN sessions # {}

\* C6: while the pipeline runs it can return, and whatever the resolver, the
\* weather lookup and the synthesis did, it returns one announcement (the audio
\* for, or the text of, the message composed in the session's language for the
\* place resolved) followed by Hangup.
AnnounceThenHangup ==
  /\ [](running.pc = "pipeline" => ENABLED PipelineReturn)
  /\ [][ Returns =>
           /\ resp'.call = running.call
           /\ Len(resp'.verbs) = 2
           /\ \/ /\ resp'.verbs[1].verb = "Play"
                 /\ resp'.verbs[1].url =
                      [call |-> running.call, lang |-> sessions[running.call].lang]
              \/ /\ resp'.verbs[1].verb = "Say"
                 /\ resp'.verbs[1].say.template = sessions[running.call].lang
                 /\ resp'.verbs[1].say.city =
                      running.city \o CommaSpace \o running.state
           /\ resp'.verbs[2].verb = "Hangup"
       ]_vars

\* C6 witness: the pincode was not resolved, the weather lookup failed and gTTS
\* raised; the Gujarati text was said and the call hung up
EverythingFailed ==
  /\ Len(resp.verbs) = 2
  /\ resp.verbs[1].verb = "Say"
  /\ resp.verbs[1].say.template = "gu"
  /\ resp.verbs[1].say.city = UnknownCity \o CommaSpace \o UnknownState
  /\ resp.verbs[1].say.desc = "clear sky"
  /\ resp.hist.synth = "raised"
  /\ resp.verbs[2].verb = "Hangup"

\* C7: when the synthesis backend returned without audio or raised, the response
\* says the message composed for the session's language, the place resolved, a
\* weather reading and the price, and plays nothing; audio is played only when the
\* backend produced it.
FallbackSaysComposedText ==
  [][ Returns =>
        /\ resp'.hist.synth \in {"failure", "raised"} =>
             /\ "Play" \notin VerbsOf(resp')
             /\ Len(resp'.verbs) >= 1
             /\ \E price \in {get_tomato_price_demo(running.location_name)} :
                  \E reply \in WeatherReplies :
                    resp'.verbs[1] =
                      [verb |-> "Say", action |-> "none", url |-> "none",
                       say |-> build_message(sessions[running.call].lang,
                                 running.city \o CommaSpace \o running.state,
                                 get_weather_for_place(running.location_name, reply),
                                 price)]
        /\ "Play" \in VerbsOf(resp') => resp'.hist.synth = "success"
    ]_vars

\* C7 witness: Polly returned no audio stream and the English text was said
PollyWithoutAudioSaid ==
  /\ resp.hist.synth = "failure"
  /\ Len(resp.verbs) = 2
  /\ resp.verbs[1].verb = "Say"
  /\ resp.verbs[1].say.template = "en"

\* C8: after a /language request the session of its call is the language of the
\* key (1 English, 2 Hindi, 3 Gujarati, any other English) with no digits and step
\* 1, whatever was stored before, and the response prompts for digit 1.
LanguageSelectionStartsAfresh ==
  resp.endpoint = "/language" =>
    /\ resp.call \in DOMAIN sessions
    /\ sessions[resp.call] =
         [lang |-> CASE resp.hist.Digits = <<"1">> -> "en"
                     [] resp.hist.Digits = <<"2">> -> "hi"
                     [] resp.hist.Digits = <<"3">> -> "gu"
                     [] OTHER -> "en",
          pincode_digits |-> <<>>,
          step |-> 1]
    /\ AsksForDigit(resp, 1)

\* C8 witness: key 9 was pressed at the menu after five digits had been collected
ReselectedAfterFiveDigits ==
  /\ resp.endpoint = "/language"
  /\ resp.hist.Digits = <<"9">>
  /\ resp.hist.replaced = 5

\* C9 as stated, for a session that stays in the store: no step changes its
\* language.
LanguageSetOnce ==
  [][ \A c \in DOMAIN sessions \cap DOMAIN sessions' :
        sessions'[c].lang = sessions[c].lang ]_vars

\* C9 amended: a digit handled on a stored session leaves its language as it was
\* and the terminal message is composed in it; the language of a stored session
\* changes only in a /language step for its call, which leaves it without digits;
\* a digit handled without a session stores English.
LanguageChangesOnlyBySelection ==
  [][ \A c \in CallIds :
        /\ (/\ c \in DOMAIN sessions
            /\ c \in DOMAIN sessions'
            /\ sessions'[c].lang # sessions[c].lang) =>
             /\ Handled = {}
             /\ resp'.endpoint = "/language"
             /\ resp'.call = c
             /\ sessions'[c].pincode_digits = <<>>
        /\ (c \notin DOMAIN sessions /\ c \in DOMAIN sessions' /\ Handled # {}) =>
             sessions'[c].lang = "en"
        /\ (Returns /\ running.call = c /\ Len(resp'.verbs) >= 1) =>
             /\ resp'.verbs[1].verb = "Say" =>
                  resp'.verbs[1].say.template = sessions[c].lang
             /\ resp'.verbs[1].verb = "Play" =>
                  resp'.verbs[1].url.lang = sessions[c].lang
    ]_vars

\* C9 witness: five digits have been handled on a session whose language is
\* Gujarati
GujaratiKeptThroughDigits ==
  /\ resp.endpoint = "/collect_digit"
  /\ ~resp.hist.missing
  /\ resp.call \in DOMAIN sessions
  /\ sessions[resp.call].lang = "gu"
  /\ Len(sessions[resp.call].pincode_digits) = 5

\* C10: the digits a stored session holds are the digits handled for its call, in
\* the order handled, and its step has advanced once for each; six are held only
\* while the pipeline of the call runs; a call without session has none handled
\* since its hangup.
NoLostUpdate ==
  \A c \in CallIds :
    IF c \in DOMAIN sessions
    THEN /\ sessions[c].pincode_digits = fed[c]
         /\ sessions[c].step = Len(fed[c]) + 1
         /\ Len(fed[c]) >= 6 =>
              (Len(fed[c]) = 6 /\ running.pc = "pipeline" /\ running.call = c)
    ELSE fed[c] = <<>>

\* C10 witness: two requests of a call were suspended together, the later one was
\* handled first, and both have been handled
BothRacingDigitsHandled ==
  /\ resp.hist.raced
  /\ resp.call \in DOMAIN sessions
  /\ Pending(resp.call) = {}
  /\ Len(sessions[resp.call].pincode_digits) >= 2

\* the step handles an event of call c
ActsOn(c) ==
  \/ \E req \in Handled : req.call = c
  \/ Returns /\ running.call = c
  \/ Handled = {} /\ ~Returns /\ resp'.endpoint = "/language" /\ resp'.call = c

\* C11: a step that handles no event of call b leaves b's session as it was
\* (language, digits, step, presence) and the digits handled for b as they were;
\* the pincode a pipeline returns for is the join of the digits handled for its
\* own call, which are those its session holds.
FrameOfOtherCalls ==
  [][ /\ \A b \in CallIds :
           ~ActsOn(b) =>
             /\ (b \in DOMAIN sessions) = (b \in DOMAIN sessions')
             /\ b \in DOMAIN sessions => sessions'[b] = sessions[b]
             /\ fed'[b] = fed[b]
      /\ Returns =>
           /\ running.full_pincode = Join(fed[running.call])
           /\ sessions[running.call].pincode_digits = fed[running.call]
    ]_vars

\* C11 witness: one call ended with the message for Mumbai while the other call's
\* Gujarati session holds three digits
EndedBesideAnotherCall ==
  /\ EmitsTerminal(resp)
  /\ resp.verbs[1].verb = "Say"
  /\ resp.verbs[1].say.city = city_map[2].city \o CommaSpace \o city_map[2].state
  /\ \E b \in DOMAIN sessions :
       /\ b # resp.call
       /\ sessions[b].lang = "gu"
       /\ Len(sessions[b].pincode_digits) = 3

\* C12 as stated: while the pipeline of one call waits for the weather lookup or
\* the synthesis, a /collect_digit request of another call that has arrived can
\* be handled, and so can a /language request of another call.
OtherCallsHandledDuringPipeline ==
  running.pc = "pipeline" =>
    /\ \A req \in inflight :
         req.call # running.call => ENABLED collect_digit(req)
    /\ \A b \in CallIds \ {running.call} :
         Pending(b) = {} => ENABLED handle_language(b, <<"1">>)

\* C13: for the six keys of every key of city_map the resolver returned the
\* city and state mapped to it, whatever range holds the number; resolving the
\* same keys again gives the pair it returned.
ExactMatchWins ==
  running.pc = "pipeline" =>
    /\ \A i \in 1..Len(city_map) :
         running.full_pincode = KeysOf(city_map[i].pin) =>
           /\ running.city = city_map[i].city
           /\ running.state = city_map[i].state
    /\ map_pincode_to_city(running.full_pincode) = <<running.city, running.state>>

\* C13 witness: 500001 was resolved to Hyderabad, Telangana, though the first
\* range that holds it is Andhra Pradesh
HyderabadResolved ==
  /\ running.pc = "pipeline"
  /\ running.full_pincode = <<"5","0","0","0","0","1">>
  /\ running.city = <<"H","y","d","e","r","a","b","a","d">>
  /\ running.state = <<"T","e","l","a","n","g","a","n","a">>
  /\ InRange(500001, ranges[7])

\* range i holds the number n, both ends included
Holds(i, n) == ranges[i].start <= n /\ n <= ranges[i].end

\* C14: for the six keys of every number that is no key of city_map the resolver
\* returned the city "Pincode <keys>" with the state of the first range of the
\* list that holds the number, and Unknown City, Unknown State when none does.
RangeFallback ==
  running.pc = "pipeline" =>
    \A n \in DialledNumbers :
      (/\ running.full_pincode = KeysOf(n)
       /\ \A i \in 1..Len(city_map) : city_map[i].pin # n) =>
        /\ \A i \in 1..Len(ranges) :
             (Holds(i, n) /\ \A j \in 1..(i - 1) : ~Holds(j, n)) =>
               /\ running.city = <<"P","i","n","c","o","d","e"," ">> \o KeysOf(n)
               /\ running.state = ranges[i].state
        /\ (\A i \in 1..Len(ranges) : ~Holds(i, n)) =>
             /\ running.city = <<"U","n","k","n","o","w","n"," ","C","i","t","y">>
             /\ running.state = <<"U","n","k","n","o","w","n"," ","S","t","a","t","e">>

\* C14 witness: 505000, held by the ranges of Andhra Pradesh and of Telangana,
\* was resolved to the one listed first
OverlapResolvedToFirstListed ==
  /\ running.pc = "pipeline"
  /\ running.full_pincode = KeysOf(505000)
  /\ Holds(7, 505000) /\ Holds(8, 505000)
  /\ ranges[7].state # ranges[8].state
  /\ running.state = ranges[7].state
  /\ running.city = PincodePrefix \o KeysOf(505000)

\* one of the keys is * or #
HasSymbol(keys) == \E i \in 1..Len(keys) : keys[i] \in {"*", "#"}

\* "Unknown City, Unknown State"
SentinelLabel ==
  <<"U","n","k","n","o","w","n"," ","C","i","t","y",","," ",
    "U","n","k","n","o","w","n"," ","S","t","a","t","e">>

\* C15: when one of the six keys is * or #, the resolver returned Unknown City,
\* Unknown State, the pipeline can return, and it returns one announcement, whose
\* text when it is said names "Unknown City, Unknown State", followed by Hangup.
SymbolsGetSentinel ==
  /\ []((running.pc = "pipeline" /\ HasSymbol(running.full_pincode)) =>
          /\ running.city = <<"U","n","k","n","o","w","n"," ","C","i","t","y">>
          /\ running.state = <<"U","n","k","n","o","w","n"," ","S","t","a","t","e">>
          /\ ENABLED PipelineReturn)
  /\ [][ (Returns /\ HasSymbol(running.full_pincode)) =>
           /\ Len(resp'.verbs) = 2
           /\ resp'.verbs[1].verb \in {"Play", "Say"}
           /\ resp'.verbs[1].verb = "Say" => resp'.verbs[1].say.city = SentinelLabel
           /\ resp'.verbs[2] = HangupVerb
       ]_vars

\* C15 witness: the keys 4 0 * 0 # 1 were resolved to the sentinel pair
SymbolsResolved ==
  /\ running.pc = "pipeline"
  /\ running.full_pincode = <<"4","0","*","0","#","1">>
  /\ running.city = UnknownCity
  /\ running.state = UnknownState

\* the response says the message composed
SaysMessage(r) == Len(r.verbs) >= 1 /\ r.verbs[1].verb = "Say"

\* key i of the price table occurs in the place name, letter case apart
KeyOccurs(i, place) == Contains(Lower(place), Lower(mapping[i].key))

\* C16 as stated: when the weather lookup failed, the message said has the
\* description "clear sky" and the price 32, whatever the place.
FailedGatewaysGiveClearSkyAnd32 ==
  (SaysMessage(resp) /\ resp.hist.weather = "failed") =>
    /\ resp.verbs[1].say.desc = "clear sky"
    /\ resp.verbs[1].say.price = 32

\* C16 amended: when the weather lookup failed, the message said has the
\* description "clear sky" and the temperature "unknown"; its price is that of the
\* first key of the price table that occurs in the place name, and 32 when none
\* occurs.
FailedWeatherGivesClearSkyAndTablePrice ==
  [][ (Returns /\ SaysMessage(resp') /\ resp'.hist.weather = "failed") =>
        /\ resp'.verbs[1].say.template \in {"en", "hi", "gu"}
        /\ resp'.verbs[1].say.desc = "clear sky"
        /\ resp'.verbs[1].say.temp = "unknown"
        /\ \A i \in 1..Len(mapping) :
             (/\ KeyOccurs(i, running.location_name)
              /\ \A j \in 1..(i - 1) : ~KeyOccurs(j, running.location_name)) =>
               resp'.verbs[1].say.price = mapping[i].price
        /\ (\A i \in 1..Len(mapping) : ~KeyOccurs(i, running.location_name)) =>
             resp'.verbs[1].say.price = 32
    ]_vars

\* C16 witness: the weather lookup failed for Mumbai and the message said gives
\* "clear sky" and the price 45
MumbaiSaidWithTablePrice ==
  /\ SaysMessage(resp)
  /\ resp.hist.weather = "failed"
  /\ resp.verbs[1].say.city = city_map[2].city \o CommaSpace \o city_map[2].state
  /\ resp.verbs[1].say.desc = "clear sky"
  /\ resp.verbs[1].say.price = 45

\* the call has been answered with its announcement and a hangup, and its session
\* is gone
Completed(c) ==
  /\ resp.call = c
  /\ EmitsTerminal(resp)
  /\ "Hangup" \in VerbsOf(resp)
  /\ c \notin DOMAIN sessions

\* C17: a pipeline that has begun for a call leads to the call being completed;
\* and so does a session holding five digits of which a further digit has arrived.
RunsToCompletion ==
  \A c \in CallIds :
    /\ (running.pc = "pipeline" /\ running.call = c) ~> Completed(c)
    /\ (/\ c \in DOMAIN sessions
        /\ Len(sessions[c].pincode_digits) = 5
        /\ Pending(c) # {}) ~> Completed(c)

\* C17 witness: a call that selected Hindi has been completed
HindiCallCompleted ==
  /\ \E c \in CallIds : Completed(c)
  /\ resp.verbs[1].verb = "Play"
  /\ resp.verbs[1].url.lang = "hi"

\* the city is the placeholder "Pincode <keys>"
IsPlaceholder(city) ==
  Len(city) >= 8 /\ SubSeq(city, 1, 8) = <<"P","i","n","c","o","d","e"," ">>

\* C18: the place name the pipeline hands to the weather and price lookups is the
\* city the resolver returned when the keys are a key of city_map, and the state
\* it returned when the city is "Unknown City" or a "Pincode <keys>" placeholder;
\* the message said names "<city>, <state>" as the resolver returned them.
PlaceNameRule ==
  /\ [](running.pc = "pipeline" =>
          /\ <<running.city, running.state>> = map_pincode_to_city(running.full_pincode)
          /\ (\E i \in 1..Len(city_map) :
                running.full_pincode = KeysOf(city_map[i].pin)) =>
               running.location_name = running.city
          /\ (\/ running.city = <<"U","n","k","n","o","w","n"," ","C","i","t","y">>
              \/ IsPlaceholder(running.city)) =>
               running.location_name = running.state)
  /\ [][ (Returns /\ SaysMessage(resp')) =>
           resp'.verbs[1].say.city = running.city \o <<",", " ">> \o running.state
       ]_vars

\* C18 witness: 110000 was resolved to a placeholder city and the lookups are
\* handed Delhi, its state
PlaceholderHandsState ==
  /\ running.pc = "pipeline"
  /\ running.full_pincode = KeysOf(110000)
  /\ IsPlaceholder(running.city)
  /\ running.location_name = <<"D","e","l","h","i">>

\* the step in which a handler enters the pipeline
Enters == running.pc = "idle" /\ running'.pc = "pipeline"

\* C19: the pipeline is entered only by the handling of a digit of a call, and
\* exactly when that digit is the sixth handled for the call since its session was
\* created by /language or recovered from the default, the session then holding
\* those six; a terminal directive is sent only by the return of that pipeline,
\* for that call, and the six digits are spent by it.  Every terminal directive of
\* a call is thus paid for by six digit events of the call of its own.
TerminalOnlyOnSixth ==
  /\ [](\A c \in CallIds : c \notin DOMAIN sessions => fed[c] = <<>>)
  /\ [][ /\ Enters => Handled # {}
         /\ \A req \in Handled :
              /\ fed'[req.call] = Append(fed[req.call], req.Digits)
              /\ Enters <=> Len(fed'[req.call]) = PincodeLength
              /\ Enters => /\ running'.call = req.call
                           /\ sessions'[req.call].pincode_digits = fed'[req.call]
         /\ (EmitsTerminal(resp') /\ resp' # resp) =>
              /\ Returns
              /\ resp'.call = running.call
              /\ Len(fed[running.call]) = PincodeLength
              /\ fed'[running.call] = <<>>
         /\ Returns => EmitsTerminal(resp')
       ]_vars

\* C19 witness: the pipeline runs for CA2 on its six digits while CA1, with five
\* digits handled, has had none
SixthOfOneFifthOfOther ==
  /\ running.pc = "pipeline"
  /\ running.call = "CA2"
  /\ Len(fed["CA2"]) = PincodeLength
  /\ Len(fed["CA1"]) = PincodeLength - 1

\* C20: every digit request handled, whatever its digit and whether or not it
\* equals the digit handled before it, appends that one digit to the session of
\* its call and advances the step by one (the sixth entering the pipeline), so a
\* request handled twice leaves a session other than handled once.
NoDeduplication ==
  [][ \A req \in Handled :
        LET before == SessionGet(sessions, req.call)
            once   == AppendDigit(before, req.Digits)
            twice  == AppendDigit(once, req.Digits)
        IN /\ req.call \in DOMAIN sessions'
           /\ sessions'[req.call].pincode_digits = Append(before.pincode_digits, req.Digits)
           /\ sessions'[req.call].step = before.step + 1
           /\ sessions'[req.call] = once
           /\ twice # once
           /\ Len(twice.pincode_digits) = Len(before.pincode_digits) + 2
           /\ Enters <=> Len(once.pincode_digits) = PincodeLength
    ]_vars

\* C20 witness: the key 0 was handled for CA1 right after another 0, and both are
\* in its session
SameDigitTwiceStored ==
  /\ resp.endpoint = "/collect_digit"
  /\ resp.call = "CA1"
  /\ resp.hist.Digits = <<"0">>
  /\ "CA1" \in DOMAIN sessions
  /\ LET d == sessions["CA1"].pincode_digits
     IN /\ Len(d) = 3
        /\ d[2] = <<"0">>
        /\ d[3] = <<"0">>

====
